---- MODULE Spec2Model ----
(***************************************************************************)
(* Model of HMPICalculator (src/script.js): the sample/result store, the   *)
(* sample validator, the batch importer and the HMPI engine.               *)
(*                                                                         *)
(* Conventions of the model                                                *)
(*  - A JavaScript string is a sequence of symbols.  A symbol is one       *)
(*    character ("0", ".", ",", " ", "-") or an indivisible run of letters *)
(*    ("Infinity", "sampleName", "abc").                                   *)
(*  - A JavaScript number is a record [k, n, d]: k = "fin" is the exact    *)
(*    rational n/d in lowest terms (d > 0); k = "nan", "inf", "ninf" are   *)
(*    NaN, +Infinity and -Infinity.  Rounding of IEEE doubles is not       *)
(*    modelled.  null is the record Null of the same shape.                *)
(*  - A JavaScript value read from a form, a CSV cell or a JSON record is  *)
(*    a record [t, s, v]: t = "string" holds the text s, t = "number" the  *)
(*    number v, t = "undefined" a missing property.                        *)
(***************************************************************************)
EXTENDS Integers, Sequences, FiniteSets

VARIABLES samples, results, now, pending, notice, arg, ret

vars == <<samples, results, now, pending, notice, arg, ret>>

(***************************************************************************)
(* Numbers                                                                 *)
(***************************************************************************)
Abs(x) == IF x < 0 THEN -x ELSE x

RECURSIVE GCD(_, _)
GCD(a, b) == IF b = 0 THEN a ELSE GCD(b, a % b)

NaN == [k |-> "nan", n |-> 0, d |-> 1]
Infinity == [k |-> "inf", n |-> 0, d |-> 1]
NegInfinity == [k |-> "ninf", n |-> 0, d |-> 1]
Null == [k |-> "null", n |-> 0, d |-> 1]

\* n/d in lowest terms, g the greatest common divisor of n and d (d > 0)
Lowest(n, d, g) == [k |-> "fin", n |-> n \div g, d |-> d \div g]

\* the finite number n/d (d # 0), in lowest terms with a positive denominator
Frac(n, d) == Lowest(IF d < 0 THEN -n ELSE n, Abs(d), GCD(Abs(n), Abs(d)))

Int2Num(i) == Frac(i, 1)
Zero == Int2Num(0)

IsFin(x) == x.k = "fin"
\* the sign of a number that is not NaN: -1, 0 or 1
Sign(x) ==
    IF x.k = "inf" THEN 1
    ELSE IF x.k = "ninf" THEN -1
    ELSE IF x.n > 0 THEN 1 ELSE IF x.n < 0 THEN -1 ELSE 0

\* JavaScript isNaN(x) for a number x
isNaN(x) == x.k = "nan"

\* JavaScript a < b on numbers: false as soon as one side is NaN
Lt(a, b) ==
    IF a.k = "nan" \/ b.k = "nan" THEN FALSE
    ELSE IF a.k = "inf" \/ b.k = "ninf" THEN FALSE
    ELSE IF a.k = "ninf" \/ b.k = "inf" THEN TRUE
    ELSE a.n * b.d < b.n * a.d

Gt(a, b) == Lt(b, a)
\* JavaScript a <= b on numbers
Le(a, b) ==
    IF a.k = "nan" \/ b.k = "nan" THEN FALSE
    ELSE a = b \/ Lt(a, b)

\* JavaScript a + b
Add(a, b) ==
    IF a.k = "nan" \/ b.k = "nan" THEN NaN
    ELSE IF a.k = "inf" THEN (IF b.k = "ninf" THEN NaN ELSE Infinity)
    ELSE IF a.k = "ninf" THEN (IF b.k = "inf" THEN NaN ELSE NegInfinity)
    ELSE IF b.k # "fin" THEN b
    ELSE Frac(a.n * b.d + b.n * a.d, a.d * b.d)

\* JavaScript a * b
Mul(a, b) ==
    IF a.k = "nan" \/ b.k = "nan" THEN NaN
    ELSE IF a.k = "fin" /\ b.k = "fin" THEN Frac(a.n * b.n, a.d * b.d)
    ELSE IF Sign(a) = 0 \/ Sign(b) = 0 THEN NaN
    ELSE IF Sign(a) * Sign(b) > 0 THEN Infinity ELSE NegInfinity

\* JavaScript a / b (0/0 and Infinity/Infinity are NaN, x/0 is +-Infinity)
Div(a, b) ==
    IF a.k = "nan" \/ b.k = "nan" THEN NaN
    ELSE IF a.k = "fin" /\ b.k = "fin" THEN
        IF b.n # 0 THEN Frac(a.n * b.d, a.d * b.n)
        ELSE IF a.n = 0 THEN NaN
        ELSE IF a.n > 0 THEN Infinity ELSE NegInfinity
    ELSE IF a.k # "fin" /\ b.k # "fin" THEN NaN
    ELSE IF a.k = "fin" THEN Zero
    ELSE IF Sign(a) * (IF Sign(b) < 0 THEN -1 ELSE 1) > 0 THEN Infinity ELSE NegInfinity

\* JavaScript truthiness of a number-or-null: 0, NaN and null are falsy
TruthyNum(x) == ~(x.k = "null" \/ x.k = "nan" \/ (x.k = "fin" /\ x.n = 0))

(***************************************************************************)
(* Strings                                                                 *)
(***************************************************************************)
DigitSyms == <<"0", "1", "2", "3", "4", "5", "6", "7", "8", "9">>
IsDigit(c) == \E i \in 1..10 : DigitSyms[i] = c
DigitVal(c) == (CHOOSE i \in 1..10 : DigitSyms[i] = c) - 1
IsSpace(c) == c \in {" ", "\t", "\r", "\n"}

Tl(s) == SubSeq(s, 2, Len(s))
Front(s) == SubSeq(s, 1, Len(s) - 1)

RECURSIVE TrimStart(_)
TrimStart(s) == IF s # <<>> /\ IsSpace(Head(s)) THEN TrimStart(Tl(s)) ELSE s

RECURSIVE TrimEnd(_)
TrimEnd(s) == IF s # <<>> /\ IsSpace(s[Len(s)]) THEN TrimEnd(Front(s)) ELSE s

\* String.prototype.trim
Trim(s) == TrimEnd(TrimStart(s))

\* the length of the longest prefix of s made of digits
RECURSIVE DigitRun(_)
DigitRun(s) == IF s # <<>> /\ IsDigit(Head(s)) THEN 1 + DigitRun(Tl(s)) ELSE 0

RECURSIVE Pow10(_)
Pow10(e) == IF e = 0 THEN 1 ELSE 10 * Pow10(e - 1)

\* the value of a sequence of digits
RECURSIVE DigitsVal(_)
DigitsVal(s) == IF s = <<>> THEN 0 ELSE 10 * DigitsVal(Front(s)) + DigitVal(s[Len(s)])

\* the decimal digits of a natural number
RECURSIVE NatToString(_)
NatToString(i) ==
    IF i < 10 THEN <<DigitSyms[i + 1]>>
    ELSE Append(NatToString(i \div 10), DigitSyms[(i % 10) + 1])

\* the digits after the decimal point of r/d (0 <= r < d, d a divisor of a power of 10)
RECURSIVE FracDigits(_, _)
FracDigits(r, d) ==
    IF r = 0 THEN <<>>
    ELSE <<DigitSyms[((10 * r) \div d) + 1]>> \o FracDigits((10 * r) % d, d)

\* the part of a decimal numeral after the integer digits
Fraction(fp) == IF fp = <<>> THEN <<>> ELSE <<".">> \o fp

\* Number.prototype.toString (decimal notation, no exponent)
NumberToString(x) ==
    IF x.k = "nan" THEN <<"NaN">>
    ELSE IF x.k = "inf" THEN <<"Infinity">>
    ELSE IF x.k = "ninf" THEN <<"-", "Infinity">>
    ELSE (IF x.n < 0 THEN <<"-">> ELSE <<>>)
            \o NatToString(Abs(x.n) \div x.d)
            \o Fraction(FracDigits(Abs(x.n) % x.d, x.d))

\* JavaScript -x
Neg(x) ==
    IF x.k = "inf" THEN NegInfinity
    ELSE IF x.k = "ninf" THEN Infinity
    ELSE IF x.k = "fin" THEN [x EXCEPT !.n = -x.n]
    ELSE x

\* the number written by the digits int before and frac after the decimal point
Literal(int, frac) ==
    IF int \o frac = <<>> THEN NaN
    ELSE Frac(DigitsVal(int \o frac), Pow10(Len(frac)))

\* the longest decimal literal at the start of int \o rest, int its integer digits
ParseDecimal(int, rest) ==
    IF rest # <<>> /\ Head(rest) = "."
    THEN Literal(int, SubSeq(rest, 2, DigitRun(Tl(rest)) + 1))
    ELSE Literal(int, <<>>)

\* parseFloat of a string without white space or sign in front
ParseUnsigned(u) ==
    IF u # <<>> /\ Head(u) = "Infinity" THEN Infinity
    ELSE ParseDecimal(SubSeq(u, 1, DigitRun(u)), SubSeq(u, DigitRun(u) + 1, Len(u)))

\* parseFloat of a string without white space in front
ParseSigned(t) ==
    IF t # <<>> /\ Head(t) = "-" THEN Neg(ParseUnsigned(Tl(t)))
    ELSE IF t # <<>> /\ Head(t) = "+" THEN ParseUnsigned(Tl(t))
    ELSE ParseUnsigned(t)

\* parseFloat of a string: leading white space, a sign, then "Infinity" or the
\* longest decimal literal (digits, optional "." and digits); anything after it
\* is ignored; NaN when no literal starts there.  Exponents are not modelled.
ParseFloatStr(s) == ParseSigned(TrimStart(s))

(***************************************************************************)
(* JavaScript values                                                       *)
(***************************************************************************)
Undefined == [t |-> "undefined", s |-> <<>>, v |-> Zero]
Str(s) == [t |-> "string", s |-> s, v |-> Zero]
NumVal(x) == [t |-> "number", s |-> <<>>, v |-> x]

\* the string conversion (ToString) of a value
JSToString(x) ==
    IF x.t = "string" THEN x.s
    ELSE IF x.t = "number" THEN NumberToString(x.v)
    ELSE <<"undefined">>

\* Number.parseFloat of any value: the argument is converted to a string first
parseFloat(x) == ParseFloatStr(JSToString(x))

\* truthiness of a value: undefined, "", 0 and NaN are falsy
Truthy(x) ==
    IF x.t = "string" THEN x.s # <<>>
    ELSE IF x.t = "number" THEN TruthyNum(x.v)
    ELSE FALSE

(***************************************************************************)
(* Metal reference table (constructor)                                     *)
(***************************************************************************)
\* the keys of sample.metals in the order the object literals list them
MetalOrder == <<"cd", "pb", "cr", "cu", "zn", "ni">>
Metals == {MetalOrder[i] : i \in 1..Len(MetalOrder)}

\* the keys a metals mapping may hold, in insertion order: the six metals of
\* the forms and of the batch records, then a key the reference table lacks
KeyOrder == MetalOrder \o <<"hg">>

\* this.standards: WHO/EPA standards (mg/L)
standards ==
    [cd |-> Frac(3, 1000), pb |-> Frac(1, 100), cr |-> Frac(5, 100),
     cu |-> Frac(2, 1), zn |-> Frac(3, 1), ni |-> Frac(7, 100)]

\* this.weights: relative weights
weights ==
    [cd |-> Frac(2, 10), pb |-> Frac(2, 10), cr |-> Frac(15, 100),
     cu |-> Frac(15, 100), zn |-> Frac(15, 100), ni |-> Frac(15, 100)]

\* String.prototype.toUpperCase on a metal key
toUpperCase(m) ==
    CASE m = "cd" -> "CD" [] m = "pb" -> "PB" [] m = "cr" -> "CR"
      [] m = "cu" -> "CU" [] m = "zn" -> "ZN" [] m = "ni" -> "NI"
      [] m = "hg" -> "HG"
      [] OTHER -> m

\* Object.entries(metals): the keys of a metals mapping in insertion order
Entries(metals) == SelectSeq(KeyOrder, LAMBDA m : m \in DOMAIN metals)

(***************************************************************************)
(* Sample validator                                                        *)
(***************************************************************************)
NoError == <<>>
ErrName == <<"Sample name is required">>
ErrMetal(m) == <<"Invalid ", toUpperCase(m), " concentration">>
ErrLatitude == <<"Latitude must be between -90 and 90 degrees">>
ErrLongitude == <<"Longitude must be between -180 and 180 degrees">>

\* CheckMetals with the isNaN test lost: only a negative value is an error
RECURSIVE CheckMetalsNoNaN(_, _)
CheckMetalsNoNaN(entries, metals) ==
    IF entries = <<>> THEN NoError
    ELSE IF Lt(metals[Head(entries)], Zero) THEN ErrMetal(Head(entries))
    ELSE CheckMetalsNoNaN(Tl(entries), metals)

\* the loop over Object.entries(sample.metals): the error of the first entry
\* that is NaN or negative
RECURSIVE CheckMetals(_, _)
CheckMetals(entries, metals) ==
    IF entries = <<>> THEN NoError
    ELSE IF isNaN(metals[Head(entries)]) \/ Lt(metals[Head(entries)], Zero)
         THEN ErrMetal(Head(entries))
    ELSE CheckMetals(Tl(entries), metals)

\* validateSample: the message of the Error it throws, NoError when it returns
validateSample(sample) ==
    LET metalError == CheckMetals(Entries(sample.metals), sample.metals)
    IN  IF Trim(sample.name) = <<>> THEN ErrName
        ELSE IF metalError # NoError THEN metalError
        ELSE IF sample.latitude # Null
                /\ (Lt(sample.latitude, Int2Num(-90)) \/ Gt(sample.latitude, Int2Num(90)))
             THEN ErrLatitude
        ELSE IF sample.longitude # Null
                /\ (Lt(sample.longitude, Int2Num(-180)) \/ Gt(sample.longitude, Int2Num(180)))
             THEN ErrLongitude
        ELSE NoError

(***************************************************************************)
(* HMPI engine                                                             *)
(***************************************************************************)
\* the numbers 100 and 200 of the index and of its categories
Hundred == Int2Num(100)
TwoHundred == Int2Num(200)

\* the loop of calculateHMPI: <<hmpi, totalWeight>> after the entries
RECURSIVE HMPILoop(_, _, _, _)
HMPILoop(entries, metals, hmpi, totalWeight) ==
    IF entries = <<>> THEN <<hmpi, totalWeight>>
    ELSE IF Head(entries) \in DOMAIN standards /\ TruthyNum(standards[Head(entries)])
            /\ Head(entries) \in DOMAIN weights /\ TruthyNum(weights[Head(entries)])
         THEN HMPILoop(Tl(entries), metals,
                       Add(hmpi, Mul(Mul(Div(metals[Head(entries)], standards[Head(entries)]),
                                         weights[Head(entries)]),
                                     Hundred)),
                       Add(totalWeight, weights[Head(entries)]))
         ELSE HMPILoop(Tl(entries), metals, hmpi, totalWeight)

\* hmpi / totalWeight for the pair the loop ends with
Quotient(r) == Div(r[1], r[2])

\* calculateHMPI returning the weighted sum without the division
calculateHMPINoDivision(metals) == HMPILoop(Entries(metals), metals, Zero, Zero)[1]

calculateHMPI(metals) == Quotient(HMPILoop(Entries(metals), metals, Zero, Zero))

\* categorizeHMPI with both comparisons strict
categorizeHMPIStrict(hmpi) ==
    IF Lt(hmpi, Hundred) THEN "safe"
    ELSE IF Lt(hmpi, TwoHundred) THEN "moderate"
    ELSE "hazardous"

categorizeHMPI(hmpi) ==
    IF Le(hmpi, Hundred) THEN "safe"
    ELSE IF Le(hmpi, TwoHundred) THEN "moderate"
    ELSE "hazardous"

\* DominantStep taking over an entry whose ratio equals the largest so far
DominantStepLast(metal, ratio, max) ==
    IF Le(max[1], ratio) THEN <<ratio, toUpperCase(metal)>> ELSE max

\* one entry of the loop of getDominantMetal, ratio the entry's ratio:
\* <<maxRatio, dominantMetal>> afterwards
DominantStep(metal, ratio, max) ==
    IF Gt(ratio, max[1]) THEN <<ratio, toUpperCase(metal)>> ELSE max

\* the loop of getDominantMetal: <<maxRatio, dominantMetal>> after the entries
RECURSIVE DominantLoop(_, _, _)
DominantLoop(entries, metals, max) ==
    IF entries = <<>> THEN max
    ELSE IF Head(entries) \in DOMAIN standards /\ TruthyNum(standards[Head(entries)])
         THEN DominantLoop(Tl(entries), metals,
                           DominantStep(Head(entries),
                                        Div(metals[Head(entries)], standards[Head(entries)]),
                                        max))
         ELSE DominantLoop(Tl(entries), metals, max)

\* dominantMetal || 'N/A'
OrNA(dominantMetal) == IF dominantMetal # "" THEN dominantMetal ELSE "N/A"

getDominantMetal(metals) == OrNA(DominantLoop(Entries(metals), metals, <<Zero, "">>)[2])

(***************************************************************************)
(* Messages shown to the user                                              *)
(***************************************************************************)
NoNotice == [kind |-> "none", text |-> <<>>]
\* showError(message): the error modal
showError(message) == [kind |-> "error", text |-> message]
\* alert(message)
alert(message) == [kind |-> "alert", text |-> message]

(***************************************************************************)
(* Manual entry                                                            *)
(***************************************************************************)
\* x || null for a number x
OrNull(x) == IF TruthyNum(x) THEN x ELSE Null

\* the sample object handleManualSubmit builds from the form fields (each a
\* string) when Date.now() returns t
ManualSample(form, t) ==
    [id |-> NumberToString(Int2Num(t)),
     name |-> form.sampleName,
     latitude |-> OrNull(parseFloat(Str(form.latitude))),
     longitude |-> OrNull(parseFloat(Str(form.longitude))),
     metals |-> [m \in Metals |-> parseFloat(Str(form[m]))]]

(***************************************************************************)
(* Batch import                                                            *)
(***************************************************************************)
\* item.f on a record of a batch: a missing property is undefined
Get(item, f) == IF <<f>> \in DOMAIN item THEN item[<<f>>] ELSE Undefined

ErrTrim == <<"sample.name.trim is not a function">>

\* the sample object processBatchData builds from the record at position index
\* (0-based) when Date.now() returns t
BatchSample(item, index, t) ==
    [id |-> NumberToString(Int2Num(t)) \o <<"_">> \o NumberToString(Int2Num(index)),
     name |-> IF Truthy(Get(item, "sampleName")) THEN JSToString(Get(item, "sampleName"))
              ELSE <<"Sample ">> \o NatToString(index + 1),
     latitude |-> IF Truthy(Get(item, "latitude")) THEN parseFloat(Get(item, "latitude"))
                  ELSE Null,
     longitude |-> IF Truthy(Get(item, "longitude")) THEN parseFloat(Get(item, "longitude"))
                   ELSE Null,
     metals |-> [m \in Metals |-> parseFloat(Get(item, m))]]

\* the error caught by the try block around one record, whose sample object
\* is sample: a name that is not a string has no trim method, otherwise what
\* validateSample throws
BatchRecordError(item, sample) ==
    IF Truthy(Get(item, "sampleName")) /\ Get(item, "sampleName").t # "string"
    THEN ErrTrim
    ELSE validateSample(sample)

\* BatchRecord putting the sample in front of the samples already there
BatchRecordFirst(acc, item, sample) ==
    IF BatchRecordError(item, sample) = NoError
    THEN [acc EXCEPT !.samples = <<sample>> \o @, !.successCount = @ + 1]
    ELSE [acc EXCEPT !.errorCount = @ + 1]

\* the try block around one record whose sample object is sample: the sample
\* is pushed and counted, or the error is counted
BatchRecord(acc, item, sample) ==
    IF BatchRecordError(item, sample) = NoError
    THEN [acc EXCEPT !.samples = Append(@, sample), !.successCount = @ + 1]
    ELSE [acc EXCEPT !.errorCount = @ + 1]

\* BatchLoop without the try block around one record: the first invalid record
\* ends the loop
RECURSIVE BatchLoopAbort(_, _, _, _)
BatchLoopAbort(data, clock, index, acc) ==
    IF index >= Len(data) \/ acc.errorCount > 0 THEN acc
    ELSE BatchLoopAbort(data, clock, index + 1,
                        BatchRecord(acc, data[index + 1],
                                    BatchSample(data[index + 1], index, clock[index + 1])))

\* data.forEach of processBatchData from position index on; clock[i] is what
\* Date.now() returns for the record at position i (1-based in clock)
RECURSIVE BatchLoop(_, _, _, _)
BatchLoop(data, clock, index, acc) ==
    IF index >= Len(data) THEN acc
    ELSE BatchLoop(data, clock, index + 1,
                   BatchRecord(acc, data[index + 1],
                               BatchSample(data[index + 1], index, clock[index + 1])))

ErrNotArray == <<"Data must be an array of samples">>
ErrNoValid == <<"No valid samples found in the file">>
ImportedMessage(successCount, errorCount) ==
    <<"Successfully imported ">> \o NatToString(successCount) \o <<" samples">>
        \o (IF errorCount > 0 THEN <<" (">> \o NatToString(errorCount) \o <<" errors)">>
            ELSE <<>>)

\* BatchOutcome with the final throw lost: it alerts even when no record was
\* imported
BatchOutcomeNoThrow(r) ==
    [samples |-> r.samples,
     alert |-> ImportedMessage(r.successCount, r.errorCount),
     error |-> NoError]

\* the end of processBatchData after the loop: the alert, or the Error thrown
\* when no record was imported
BatchOutcome(r) ==
    IF r.successCount > 0
    THEN [samples |-> r.samples,
          alert |-> ImportedMessage(r.successCount, r.errorCount),
          error |-> NoError]
    ELSE [samples |-> r.samples, alert |-> <<>>, error |-> ErrNoValid]

\* processBatchData(data) on the store's samples: the samples afterwards, the
\* alert it shows and the message of the Error it throws (NoError if none)
processBatchData(store, data, clock) ==
    IF data.t # "array"
    THEN [samples |-> store, alert |-> <<>>, error |-> ErrNotArray]
    ELSE BatchOutcome(BatchLoop(data.items, clock, 0,
                                [samples |-> store, successCount |-> 0, errorCount |-> 0]))

\* String.prototype.split(sep) for a one-symbol separator
RECURSIVE Split(_, _)
Split(s, sep) ==
    IF \A i \in 1..Len(s) : s[i] # sep THEN <<s>>
    ELSE LET i == CHOOSE j \in 1..Len(s) : s[j] = sep /\ \A k \in 1..(j - 1) : s[k] # sep
         IN  <<SubSeq(s, 1, i - 1)>> \o Split(SubSeq(s, i + 1, Len(s)), sep)

\* Array.prototype.join(sep), sep a string
RECURSIVE Join(_, _)
Join(parts, sep) ==
    IF parts = <<>> THEN <<>>
    ELSE IF Len(parts) = 1 THEN parts[1]
    ELSE parts[1] \o sep \o Join(Tl(parts), sep)

\* split(",").map(trim) of one line
Cells(line) == LET c == Split(line, ",") IN [i \in 1..Len(c) |-> Trim(c[i])]

expectedHeaders ==
    <<"sampleName", "latitude", "longitude", "cd", "pb", "cr", "cu", "zn", "ni">>

ErrMissingColumns(missingHeaders) ==
    <<"Missing required columns: ">>
        \o Join([i \in 1..Len(missingHeaders) |-> <<missingHeaders[i]>>], <<",", " ">>)

\* the row object parseCSV builds for one line: row[header] = values[index],
\* the last column of a repeated header wins, a missing cell is undefined
CsvRow(headers, values) ==
    [h \in {headers[i] : i \in 1..Len(headers)} |->
        LET index == CHOOSE i \in 1..Len(headers) :
                        headers[i] = h /\ \A j \in (i + 1)..Len(headers) : headers[j] # h
        IN  IF index <= Len(values) THEN Str(values[index]) ELSE Undefined]

\* the rows of parseCSV for the lines after the header line
CsvRows(headers, lines) ==
    [error |-> NoError,
     data |-> [t |-> "array",
               items |-> [i \in 1..(Len(lines) - 1) |-> CsvRow(headers, Cells(lines[i + 1]))]]]

\* the expected headers that headers lacks
MissingHeaders(headers) ==
    SelectSeq(expectedHeaders, LAMBDA h : ~\E i \in 1..Len(headers) : headers[i] = <<h>>)

\* CsvParsed with the check of the header lost
CsvParsedNoCheck(headers, missingHeaders, lines) == CsvRows(headers, lines)

\* parseCSV after the header line is split: the Error for the missing columns,
\* or the rows
CsvParsed(headers, missingHeaders, lines) ==
    IF Len(missingHeaders) > 0
    THEN [error |-> ErrMissingColumns(missingHeaders), data |-> [t |-> "none", items |-> <<>>]]
    ELSE CsvRows(headers, lines)

\* parseCSV for the lines of the content
CsvLines(lines) == CsvParsed(Cells(lines[1]), MissingHeaders(Cells(lines[1])), lines)

\* parseCSV(content): the array of rows, or the Error it throws
parseCSV(content) == CsvLines(Split(Trim(content), "\n"))

ErrUnsupported == <<"Unsupported file format. Please use CSV or JSON.">>
ErrSyntax == <<"Unexpected token">>

\* JSON.parse of a file's text: content.json is what it makes of the text
\* ("syntax": it throws)
JSONparse(content) ==
    IF content.json.t = "syntax"
    THEN [error |-> ErrSyntax, data |-> [t |-> "none", items |-> <<>>]]
    ELSE [error |-> NoError, data |-> content.json]

\* the end of the try block of reader.onload: processBatchData(data) unless
\* parsing threw
LoadParsed(store, parsed, clock) ==
    IF parsed.error # NoError
    THEN [samples |-> store, alert |-> <<>>, error |-> parsed.error]
    ELSE processBatchData(store, parsed.data, clock)

\* the try block of reader.onload for a file whose name ends in ext and whose
\* text is content: the samples afterwards, the alert and the Error caught
LoadFile(store, ext, content, clock) ==
    IF ext \notin {".json", ".csv"}
    THEN [samples |-> store, alert |-> <<>>, error |-> ErrUnsupported]
    ELSE LoadParsed(store,
                    IF ext = ".json" THEN JSONparse(content) ELSE parseCSV(content.text),
                    clock)

\* the message after reader.onload: the alert of a successful import, else the
\* error modal of the catch block
LoadNotice(r) ==
    IF r.error # NoError THEN showError(<<"Error processing file: ">> \o r.error)
    ELSE alert(r.alert)

(***************************************************************************)
(* Results                                                                 *)
(***************************************************************************)
\* Array.prototype.find / findIndex by id: the first position, 0 if none
FindIndex(seq, id) ==
    IF \E i \in 1..Len(seq) : seq[i].id = id
    THEN CHOOSE i \in 1..Len(seq) : seq[i].id = id /\ \A j \in 1..(i - 1) : seq[j].id # id
    ELSE 0

\* the result object of a sample whose index is hmpi (calculatedAt, a time
\* stamp no code reads, is left out)
ResultOf(sample, hmpi) ==
    [id |-> sample.id,
     name |-> sample.name,
     latitude |-> sample.latitude,
     longitude |-> sample.longitude,
     metals |-> sample.metals,
     hmpi |-> hmpi,
     category |-> categorizeHMPI(hmpi),
     dominantMetal |-> getDominantMetal(sample.metals)]

\* the result object calculateSingleHMPI builds for a sample
MakeResult(sample) == ResultOf(sample, calculateHMPI(sample.metals))

\* Upsert with the findIndex test lost: the result is always pushed
UpsertAlwaysPush(res, result) == Append(res, result)

\* "Update or add result": result stored at existingIndex, pushed when that is 0
UpsertAt(res, result, existingIndex) ==
    IF existingIndex > 0 THEN [res EXCEPT ![existingIndex] = result]
    ELSE Append(res, result)

\* this.results after the upsert of result
Upsert(res, result) == UpsertAt(res, result, FindIndex(res, result.id))

\* calculateSingleHMPI for the sample at position i of this.samples, 0 if the
\* id was not found
CalculateAt(smp, res, i) == IF i = 0 THEN res ELSE Upsert(res, MakeResult(smp[i]))

\* calculateSingleHMPI(sampleId): this.results afterwards
calculateSingleHMPI(smp, res, sampleId) == CalculateAt(smp, res, FindIndex(smp, sampleId))

\* this.samples.forEach(sample => calculateSingleHMPI(sample.id)) from position i on
RECURSIVE CalculateLoop(_, _, _)
CalculateLoop(smp, res, i) ==
    IF i > Len(smp) THEN res
    ELSE CalculateLoop(smp, calculateSingleHMPI(smp, res, smp[i].id), i + 1)

\* Array.prototype.filter(x => x.id !== id)
WithoutId(seq, id) == SelectSeq(seq, LAMBDA x : x.id # id)

\* the order of the symbols for localeCompare
SymbolRank(c) ==
    CASE c = " " -> 0 [] c = "_" -> 1 [] c = "," -> 2 [] IsDigit(c) -> 3 + DigitVal(c)
      [] c = "A" -> 20 [] c = "B" -> 21 [] c = "C" -> 22 [] c = "D" -> 23
      [] c = "Sample " -> 30 [] OTHER -> 40

\* a.localeCompare(b) < 0 on strings
RECURSIVE StrLt(_, _)
StrLt(a, b) ==
    IF b = <<>> THEN FALSE
    ELSE IF a = <<>> THEN TRUE
    ELSE IF SymbolRank(Head(a)) # SymbolRank(Head(b))
         THEN SymbolRank(Head(a)) < SymbolRank(Head(b))
    ELSE StrLt(Tl(a), Tl(b))

\* the comparator of sortResults is negative: a sorts before b
Before(sortBy, a, b) ==
    CASE sortBy = "hmpi-desc" -> Lt(b.hmpi, a.hmpi)
      [] sortBy = "hmpi-asc" -> Lt(a.hmpi, b.hmpi)
      [] sortBy = "name" -> StrLt(a.name, b.name)
      [] OTHER -> FALSE

\* insertion of x into a sorted sequence after every element not after it
RECURSIVE Insert(_, _, _)
Insert(sortBy, sorted, x) ==
    IF sorted = <<>> THEN <<x>>
    ELSE IF Before(sortBy, x, sorted[Len(sorted)])
         THEN Append(Insert(sortBy, Front(sorted), x), sorted[Len(sorted)])
    ELSE Append(sorted, x)

\* Array.prototype.sort with the comparator of sortResults (a stable sort)
RECURSIVE Sort(_, _)
Sort(sortBy, seq) ==
    IF seq = <<>> THEN <<>>
    ELSE Insert(sortBy, Sort(sortBy, Front(seq)), seq[Len(seq)])

(***************************************************************************)
(* Bounds and inputs                                                       *)
(***************************************************************************)
MaxSamples == 2
MaxClock == 1
MaxPending == 1

SeqsUpTo(S, n) == UNION {[1..k -> S] : k \in 0..n}

\* the text of each metal's standard
StdText ==
    [m \in Metals |->
        CASE m = "cd" -> <<"0", ".", "0", "0", "3">>
          [] m = "pb" -> <<"0", ".", "0", "1">>
          [] m = "cr" -> <<"0", ".", "0", "5">>
          [] m = "cu" -> <<"2">>
          [] m = "zn" -> <<"3">>
          [] m = "ni" -> <<"0", ".", "0", "7">>]

FormOf(name, lat, lon, mt) ==
    [sampleName |-> name, latitude |-> lat, longitude |-> lon,
     cd |-> mt["cd"], pb |-> mt["pb"], cr |-> mt["cr"],
     cu |-> mt["cu"], zn |-> mt["zn"], ni |-> mt["ni"]]

\* the forms submitted: every metal at its standard; a blank name with a
\* negative metal and latitude 91
FormStandard == FormOf(<<"A">>, <<>>, <<>>, StdText)
FormBlank == FormOf(<<" ">>, <<"9", "1">>, <<>>, [StdText EXCEPT !["cd"] = <<"-", "1">>])
Forms == {FormStandard, FormBlank}

ItemOf(name, lat, lon, mt) ==
    [f \in {<<expectedHeaders[i]>> : i \in 1..Len(expectedHeaders)} |->
        CASE f = <<"sampleName">> -> name
          [] f = <<"latitude">> -> lat
          [] f = <<"longitude">> -> lon
          [] OTHER -> mt[f[1]]]

\* the records of a JSON array: no name, a latitude that is no number, metals
\* "0"; a negative chromium
ItemNoName == ItemOf(Undefined, Str(<<"abc">>), Undefined, [m \in Metals |-> Str(<<"0">>)])
ItemNegative ==
    ItemOf(Str(<<"D">>), Undefined, Undefined,
           [m \in Metals |-> IF m = "cr" THEN Str(<<"-", "1">>) ELSE Str(<<"0">>)])
Items == {ItemNoName, ItemNegative}

JsonText == <<"[{...}]">>
NoJson == [t |-> "syntax", items |-> <<>>]
JsonFile(d) == [name |-> ".json", text |-> JsonText, json |-> [t |-> "array", items |-> d]]

\* the line of a record under a header; a column the record lacks holds "x"
CsvLine(header, rec) ==
    Join([i \in 1..Len(header) |->
            IF <<header[i]>> \in DOMAIN rec THEN rec[<<header[i]>>] ELSE <<"x">>], <<",">>)
CsvText(header, recs) ==
    Join(<<Join([i \in 1..Len(header) |-> <<header[i]>>], <<",", " ">>)>>
            \o [i \in 1..Len(recs) |-> CsvLine(header, recs[i])], <<"\n">>)
CsvFile(header, recs) == [name |-> ".csv", text |-> CsvText(header, recs), json |-> NoJson]

\* a valid record of a CSV file, by column
CsvRecord == ItemOf(<<"E">>, <<"4", "5">>, <<>>, [m \in Metals |-> <<"0">>])

\* the files loaded: the JSON arrays of up to two records and a file that is
\* neither CSV nor JSON
Files ==
    {JsonFile(d) : d \in SeqsUpTo(Items, 2)}
      \cup {[name |-> ".txt", text |-> <<"abc">>, json |-> NoJson]}

\* the array reader.onload hands to processBatchData for a file, if it gets there
BatchOf(file) ==
    IF file.name = ".json" THEN file.json
    ELSE IF file.name = ".csv" THEN parseCSV(file.text).data
    ELSE [t |-> "none", items |-> <<>>]

\* the ids a Calculate or Remove button carries, and two ids of no button
Targets ==
    {samples[i].id : i \in 1..Len(samples)} \cup {results[i].id : i \in 1..Len(results)}
      \cup {<<"0">>, <<"x">>}

SortKeys == {"hmpi-desc", "hmpi-asc", "name"}

(***************************************************************************)
(* The calculator                                                          *)
(***************************************************************************)
Init ==
    /\ samples = <<>>
    /\ results = <<>>
    /\ now = 0
    /\ pending = 0
    /\ notice = NoNotice
    /\ arg = <<>>
    /\ ret = <<>>

\* time passes between two handlers
Tick ==
    /\ now < MaxClock
    /\ now' = now + 1
    /\ UNCHANGED <<samples, results, pending, notice, arg, ret>>

\* AddOrShow with addSample putting the sample in front of the others
AddOrShowFirst(sample, error) ==
    IF error = NoError
    THEN samples' = <<sample>> \o samples /\ UNCHANGED notice
    ELSE notice' = showError(error) /\ UNCHANGED samples

\* addSample(sample) when validateSample threw nothing, else the catch block
\* shows the error
AddOrShow(sample, error) ==
    IF error = NoError
    THEN samples' = Append(samples, sample) /\ UNCHANGED notice
    ELSE notice' = showError(error) /\ UNCHANGED samples

\* the try block of handleManualSubmit for the sample object built
SubmitSample(sample) == AddOrShow(sample, validateSample(sample))

\* handleManualSubmit: build, validate, add; the catch block shows the error
handleManualSubmit(form) ==
    /\ Len(samples) < MaxSamples
    /\ UNCHANGED <<results, now, pending, arg, ret>>
    /\ SubmitSample(ManualSample(form, now))

\* processFile(file): a FileReader starts reading a file; its onload handler
\* runs later
processFile ==
    /\ pending < MaxPending
    /\ pending' = pending + 1
    /\ UNCHANGED <<samples, results, now, notice, arg, ret>>

\* the store and the message after the try and catch blocks of reader.onload
Loaded(r) == samples' = r.samples /\ notice' = LoadNotice(r)

\* reader.onload for a file whose batch has n records, the clock ticking once
\* after the first d of them
OnloadBatch(file, d, n) ==
    /\ Len(samples) + n <= MaxSamples
    /\ d <= n
    /\ d < n => now < MaxClock
    /\ Loaded(LoadFile(samples, file.name, file,
                       [i \in 1..n |-> IF i <= d THEN now ELSE now + 1]))
    /\ now' = IF d < n THEN now + 1 ELSE now

\* reader.onload of a pending read of file; the clock ticks once after the
\* first d records of the batch
onload(file, d) ==
    /\ pending > 0
    /\ pending' = pending - 1
    /\ UNCHANGED <<results, arg, ret>>
    /\ OnloadBatch(file, d, Len(BatchOf(file).items))

\* the Calculate button of a sample, or a call with any id
CalculateSingle(id) ==
    /\ UNCHANGED <<samples, now, pending, notice, arg, ret>>
    /\ results' = calculateSingleHMPI(samples, results, id)

ErrNoSamples == <<"No samples available for calculation">>
CalculatedMessage(n) == <<"Calculated HMPI for ">> \o NatToString(n) \o <<" samples">>

calculateAllHMPI ==
    /\ UNCHANGED <<samples, now, pending, arg, ret>>
    /\ IF Len(samples) = 0
       THEN /\ notice' = showError(ErrNoSamples)
            /\ UNCHANGED results
       ELSE /\ notice' = alert(CalculatedMessage(Len(samples)))
            /\ results' = CalculateLoop(samples, results, 1)

\* removeSample with the filter of this.results lost
removeSampleKeepsResult(id) ==
    /\ samples' = WithoutId(samples, id)
    /\ UNCHANGED <<results, now, pending, notice, arg, ret>>

removeSample(id) ==
    /\ samples' = WithoutId(samples, id)
    /\ results' = WithoutId(results, id)
    /\ UNCHANGED <<now, pending, notice, arg, ret>>

\* clearAllSamples emptying this.samples only
clearAllSamplesKeepsResults(confirmed) ==
    /\ IF confirmed
       THEN samples' = <<>> /\ UNCHANGED results
       ELSE UNCHANGED <<samples, results>>
    /\ UNCHANGED <<now, pending, notice, arg, ret>>

\* clearAllSamples; confirmed is the answer to confirm(...)
clearAllSamples(confirmed) ==
    /\ IF confirmed
       THEN samples' = <<>> /\ results' = <<>>
       ELSE UNCHANGED <<samples, results>>
    /\ UNCHANGED <<now, pending, notice, arg, ret>>

sortResults(sortBy) ==
    /\ results' = Sort(sortBy, results)
    /\ UNCHANGED <<samples, now, pending, notice, arg, ret>>

Next ==
    \/ Tick
    \/ \E form \in Forms : handleManualSubmit(form)
    \/ processFile
    \/ \E file \in Files, d \in 0..MaxSamples : onload(file, d)
    \/ \E id \in Targets : CalculateSingle(id)
    \/ calculateAllHMPI
    \/ \E id \in Targets : removeSample(id)
    \/ \E confirmed \in BOOLEAN : clearAllSamples(confirmed)
    \/ \E sortBy \in SortKeys \cup {"other"} : sortResults(sortBy)

Spec == Init /\ [][Next]_vars

(***************************************************************************)
(* Intake of one input: the same handlers on one form or one file drawn    *)
(* from wider sets                                                         *)
(***************************************************************************)
WideForms ==
    {FormStandard, FormBlank,
     FormOf(<<"B">>, <<"9", "0">>, <<"-", "1", "8", "0">>,
            [StdText EXCEPT !["cd"] = <<"Infinity">>]),
     FormOf(<<" ", "A", " ">>, <<"-", "9", "0">>, <<"1", "8", "0">>,
            [StdText EXCEPT !["zn"] = <<"1", "2", "abc">>]),
     FormOf(<<"A">>, <<"9", "1">>, <<"1", "8", "1">>, StdText),
     FormOf(<<"A">>, <<"abc">>, <<"-", "1", "8", "1">>, StdText),
     FormOf(<<"A">>, <<"0">>, <<"abc">>, [StdText EXCEPT !["pb"] = <<"abc">>]),
     FormOf(<<"A">>, <<>>, <<>>, [StdText EXCEPT !["ni"] = <<>>, !["cd"] = <<"-", "0", ".", "5">>])}

\* the records of the wider JSON arrays: also numbers at twice the standard
\* with coordinates on the boundary, a latitude of 91 and a name that is a number
WideItems ==
    Items
      \cup {ItemOf(Str(<<"C">>), NumVal(Int2Num(-90)), NumVal(Int2Num(180)),
                   [m \in Metals |-> NumVal(Mul(Int2Num(2), standards[m]))]),
            ItemOf(Str(<<" ">>), NumVal(Int2Num(91)), NumVal(Zero),
                   [m \in Metals |-> IF m = "ni" THEN Undefined ELSE NumVal(Zero)]),
            ItemOf(NumVal(Int2Num(7)), Undefined, Str(<<"-", "1", "8", "1">>),
                   [m \in Metals |-> Str(<<"Infinity">>)])}

\* the header lines of the wider CSV files: the columns in another order with
\* one more column, and headers that lack columns
WideHeaders ==
    {<<"ni", "zn", "cu", "cr", "pb", "cd", "longitude", "site", "latitude", "sampleName">>,
     <<"sampleName", "latitude", "longitude", "cd", "pb", "cu", "zn">>,
     <<"sampleName", "longitude", "cd", "pb", "cr", "cu", "zn", "ni">>,
     <<"latitude", "longitude", "cd", "pb", "cr", "cu", "zn", "ni">>}

\* the records of the wider CSV files, by column: also one with a zinc that is
\* no number
WideCsvRecords ==
    {CsvRecord,
     ItemOf(<<>>, <<>>, <<"abc">>, [m \in Metals |-> IF m = "zn" THEN <<"abc">> ELSE <<"1">>])}

WideFiles ==
    {JsonFile(d) : d \in SeqsUpTo(WideItems, MaxSamples)}
      \cup {CsvFile(h, r) : h \in WideHeaders, r \in SeqsUpTo(WideCsvRecords, MaxSamples)}
      \cup {[name |-> ".json", text |-> JsonText, json |-> [t |-> "object", items |-> <<>>]],
            [name |-> ".json", text |-> <<"{">>, json |-> NoJson],
            [name |-> ".csv", text |-> <<>>, json |-> NoJson],
            [name |-> ".csv", text |-> JsonText, json |-> [t |-> "array", items |-> <<>>]],
            [name |-> ".txt", text |-> <<"abc">>, json |-> NoJson]}

NoForm == FormOf(<<>>, <<>>, <<>>, [m \in Metals |-> <<>>])
NoFile == [name |-> "", text |-> <<>>, json |-> NoJson]

InitIntake ==
    /\ samples = <<>>
    /\ results = <<>>
    /\ now = 0
    /\ pending = 0
    /\ notice = NoNotice
    /\ arg \in {[kind |-> "form", form |-> f, file |-> NoFile] : f \in WideForms}
                \cup {[kind |-> "file", form |-> NoForm, file |-> f] : f \in WideFiles}
    /\ ret = <<>>

NextIntake ==
    \/ arg.kind = "form" /\ handleManualSubmit(arg.form)
    \/ arg.kind = "file" /\ processFile
    \/ arg.kind = "file" /\ \E d \in 0..MaxSamples : onload(arg.file, d)
    \/ calculateAllHMPI

SpecIntake == InitIntake /\ [][NextIntake]_vars

(***************************************************************************)
(* validateSample on its own, applied to one sample object                 *)
(***************************************************************************)
ValidateNames == {<<>>, <<" ", "\t">>, <<"A">>, <<" ", "A">>}
ValidateLatitudes == {Null, NaN, Int2Num(-90), Int2Num(90), Int2Num(-91), Int2Num(91)}
ValidateLongitudes == {Null, NaN, Int2Num(180), Int2Num(-181), Int2Num(181)}
ValidateMetals ==
    {[cd |-> a, pb |-> b, cr |-> c, cu |-> Zero, zn |-> Frac(1, 2), ni |-> e] :
        a \in {Zero, Frac(-1, 1000), NaN}, b \in {Zero, Frac(-1, 1000), NaN},
        c \in {Frac(5, 100), NegInfinity, NaN},
        e \in {Frac(7, 100), Infinity, Frac(-7, 100)}}

ValidateInputs ==
    {[id |-> <<"0">>, name |-> n, latitude |-> la, longitude |-> lo, metals |-> mt] :
        n \in ValidateNames, la \in ValidateLatitudes, lo \in ValidateLongitudes,
        mt \in ValidateMetals}

InitValidate ==
    /\ samples = <<>>
    /\ results = <<>>
    /\ now = 0
    /\ pending = 0
    /\ notice = NoNotice
    /\ arg \in ValidateInputs
    /\ ret = <<>>

\* one call validateSample(arg); ret holds the message of the Error thrown
CallValidate ==
    /\ ret = <<>>
    /\ ret' = <<validateSample(arg)>>
    /\ UNCHANGED <<samples, results, now, pending, notice, arg>>

SpecValidate == InitValidate /\ [][CallValidate]_vars

(***************************************************************************)
(* The store under manual submissions: samples entered by hand, possibly   *)
(* in the same millisecond, and the handlers that calculate and remove     *)
(***************************************************************************)
\* the forms submitted: every metal at its standard; another name with
\* cadmium at twice its standard; the blank name
FormTwice == FormOf(<<"B">>, <<>>, <<>>, [StdText EXCEPT !["cd"] = <<"0", ".", "0", "0", "6">>])
ManualForms == {FormStandard, FormTwice, FormBlank}

NextManual ==
    \/ Tick
    \/ \E form \in ManualForms : handleManualSubmit(form)
    \/ \E id \in Targets : CalculateSingle(id)
    \/ calculateAllHMPI
    \/ \E id \in Targets : removeSample(id)
    \/ \E confirmed \in BOOLEAN : clearAllSamples(confirmed)
    \/ \E sortBy \in SortKeys : sortResults(sortBy)

SpecManual == Init /\ [][NextManual]_vars

(***************************************************************************)
(* Export of the results                                                   *)
(***************************************************************************)
\* the two digits of a number of hundredths below 100
TwoDigits(c) == <<DigitSyms[(c \div 10) + 1], DigitSyms[(c % 10) + 1]>>

\* the decimal numeral of c hundredths
Hundredths(c) == NatToString(c \div 100) \o <<".">> \o TwoDigits(c % 100)

\* Number.prototype.toFixed(2): the nearest number of hundredths, a half
\* rounded away from zero (numbers below 10^21)
toFixed2(x) ==
    IF x.k = "nan" THEN <<"NaN">>
    ELSE IF x.k = "inf" THEN <<"Infinity">>
    ELSE IF x.k = "ninf" THEN <<"-", "Infinity">>
    ELSE (IF x.n < 0 THEN <<"-">> ELSE <<>>)
            \o Hundredths((200 * Abs(x.n) + x.d) \div (2 * x.d))

\* x || "" as Array.prototype.join writes it, x a number or null
OrEmpty(x) == IF TruthyNum(x) THEN NumberToString(x) ELSE <<>>

ExportHeader ==
    <<"Sample Name", ",", "Latitude", ",", "Longitude", ",", "HMPI", ",", "Category", ",",
      "Dominant Metal", ",", "Cd", ",", "Pb", ",", "Cr", ",", "Cu", ",", "Zn", ",", "Ni">>

\* the line exportResults writes for one result
ExportRow(result) ==
    Join(<<result.name, OrEmpty(result.latitude), OrEmpty(result.longitude),
           toFixed2(result.hmpi), <<result.category>>, <<result.dominantMetal>>,
           NumberToString(result.metals.cd), NumberToString(result.metals.pb),
           NumberToString(result.metals.cr), NumberToString(result.metals.cu),
           NumberToString(result.metals.zn), NumberToString(result.metals.ni)>>, <<",">>)

\* csvContent of exportResults
ExportContent(res) ==
    Join(<<ExportHeader>> \o [i \in 1..Len(res) |-> ExportRow(res[i])], <<"\n">>)

ErrNoResults == <<"No results to export">>

\* exportResults: ret holds the content of the file downloaded
exportResults ==
    /\ UNCHANGED <<samples, results, now, pending, arg>>
    /\ IF Len(results) = 0
       THEN notice' = showError(ErrNoResults) /\ UNCHANGED ret
       ELSE ret' = <<ExportContent(results)>> /\ UNCHANGED notice

\* the records of the JSON arrays imported before an export: metals at their
\* standard with coordinates; a name with spaces around it and metals given
\* as text; a name with a comma in it; an infinite cadmium and a latitude
\* that is no number
ExportItems ==
    {ItemOf(Str(<<"A">>), NumVal(Int2Num(45)), NumVal(Int2Num(-120)),
            [m \in Metals |-> NumVal(standards[m])]),
     ItemOf(Str(<<" ", "B", " ">>), Undefined, NumVal(Zero),
            [m \in Metals |-> Str(<<"0", ".", "2", "5">>)]),
     ItemOf(Str(<<"C", ",", "D">>), Undefined, Undefined,
            [m \in Metals |-> NumVal(Mul(Int2Num(2), standards[m]))]),
     ItemOf(Str(<<"E">>), Str(<<"abc">>), Undefined,
            [m \in Metals |-> IF m = "cd" THEN Str(<<"Infinity">>) ELSE NumVal(Zero)])}

\* the forms submitted before an export
ExportForms ==
    {FormStandard, FormTwice,
     FormOf(<<"F", ",", " ", "G">>, <<"1", "2", ".", "5">>, <<>>, StdText)}

InitExport ==
    /\ samples = <<>>
    /\ results = <<>>
    /\ now = 0
    /\ pending = 0
    /\ notice = NoNotice
    /\ arg \in {[kind |-> "form", form |-> f, file |-> NoFile] : f \in ExportForms}
                \cup {[kind |-> "file", form |-> NoForm, file |-> JsonFile(d)] :
                         d \in SeqsUpTo(ExportItems, MaxSamples)}
    /\ ret = <<>>

NextExport ==
    \/ arg.kind = "form" /\ handleManualSubmit(arg.form)
    \/ arg.kind = "file" /\ processFile
    \/ arg.kind = "file" /\ \E d \in 0..MaxSamples : onload(arg.file, d)
    \/ calculateAllHMPI
    \/ exportResults

SpecExport == InitExport /\ [][NextExport]_vars

(***************************************************************************)
(* The HMPI engine on its own, applied to one metals mapping               *)
(***************************************************************************)
\* concentrations as multiples of the metal's standard
EngineLevels == {Zero, Int2Num(1), Int2Num(2), Int2Num(3)}

\* all six metals, each at one of the levels
EngineFull ==
    {[cd |-> Mul(a, standards.cd), pb |-> Mul(b, standards.pb),
      cr |-> Mul(c, standards.cr), cu |-> Mul(d, standards.cu),
      zn |-> Mul(e, standards.zn), ni |-> Mul(f, standards.ni)] :
        a \in EngineLevels, b \in EngineLevels, c \in EngineLevels,
        d \in EngineLevels, e \in EngineLevels, f \in EngineLevels}

\* mappings that omit metals or hold a key the reference table lacks
EnginePartial ==
    {<<>>} \cup
    UNION {{[hg |-> a],
            [cd |-> Mul(a, standards.cd)],
            [cd |-> Mul(a, standards.cd), pb |-> Mul(b, standards.pb)],
            [cr |-> Mul(a, standards.cr), cu |-> Mul(b, standards.cu),
             zn |-> Mul(a, standards.zn), ni |-> Mul(b, standards.ni)],
            [cd |-> Mul(a, standards.cd), pb |-> Mul(b, standards.pb),
             cr |-> Mul(a, standards.cr), cu |-> Mul(b, standards.cu),
             zn |-> Mul(a, standards.zn), ni |-> Mul(b, standards.ni),
             hg |-> a]} : a \in EngineLevels, b \in EngineLevels}

\* mappings with a concentration that is not finite
EngineSpecial ==
    {[cd |-> a, pb |-> Zero, cr |-> Zero, cu |-> Zero, zn |-> Zero, ni |-> b] :
        a \in {Infinity, Frac(3, 1000)}, b \in {Infinity, Zero}}

EngineInputs == EngineFull \cup EnginePartial \cup EngineSpecial

\* the sample calculateSingleHMPI finds for a metals mapping
EngineSample(metals) ==
    [id |-> <<"1">>, name |-> <<"A">>, latitude |-> Null, longitude |-> Null,
     metals |-> metals]

InitEngine ==
    /\ samples = <<>>
    /\ results = <<>>
    /\ now = 0
    /\ pending = 0
    /\ notice = NoNotice
    /\ arg \in EngineInputs
    /\ ret = <<>>

\* the engine calls of calculateSingleHMPI on the mapping arg; ret holds the
\* result object they fill
CallEngine ==
    /\ ret = <<>>
    /\ ret' = <<MakeResult(EngineSample(arg))>>
    /\ UNCHANGED <<samples, results, now, pending, notice, arg>>

SpecEngine == InitEngine /\ [][CallEngine]_vars

(***************************************************************************)
(* Properties                                                              *)
(***************************************************************************)
SampleIds == {samples[i].id : i \in 1..Len(samples)}
ResultIds == {results[i].id : i \in 1..Len(results)}
\* a number in the interval [lo, hi]
InRange(x, lo, hi) == x.k = "fin" /\ lo * x.d <= x.n /\ x.n <= hi * x.d

\* C1: the results hold at most one Result per sample id, and a step that
\* calculates an id that already has a Result (one Calculate, or Calculate All
\* when every sample has a Result) keeps the number of Results and the id at
\* every position of the results.
C1_OneResultPerId ==
    /\ [](\A i, j \in 1..Len(results) : results[i].id = results[j].id => i = j)
    /\ [][\/ /\ Len(results') = Len(results)
              /\ \A i \in 1..Len(results) : results'[i].id = results[i].id
           \/ ~(\/ \E id \in ResultIds : CalculateSingle(id)
                \/ (SampleIds \subseteq ResultIds /\ calculateAllHMPI))]_vars

\* C1 witness: two samples with the same id were calculated by Calculate All,
\* and one Result stands for them.
C1_Witness ==
    /\ Len(samples) = 2
    /\ samples[1].id = samples[2].id
    /\ Len(results) = 1
    /\ results[1].id = samples[1].id
    /\ notice = alert(CalculatedMessage(2))

\* C2: a step removeSample(id) leaves no Sample and no Result with that id and
\* keeps every other Sample and Result; a step calculateSingleHMPI(id) for an
\* id of no Sample changes neither the samples nor the results.
C2_RemoveThenNoOp ==
    [][\A id \in Targets :
        /\ removeSample(id) =>
            /\ \A i \in 1..Len(samples') : samples'[i].id # id
            /\ \A i \in 1..Len(results') : results'[i].id # id
            /\ \A i \in 1..Len(samples) :
                    samples[i].id # id => \E j \in 1..Len(samples') : samples'[j] = samples[i]
            /\ \A i \in 1..Len(results) :
                    results[i].id # id => \E j \in 1..Len(results') : results'[j] = results[i]
        /\ (id \notin SampleIds /\ CalculateSingle(id)) => UNCHANGED <<samples, results>>]_vars

\* C2 witness: two samples were calculated, then one of them was removed with
\* its Result, and the id "0" that is asked for has no Sample any more.
C2_Witness ==
    /\ notice = alert(CalculatedMessage(2))
    /\ Len(samples) = 1
    /\ Len(results) = 1
    /\ results[1].id = samples[1].id
    /\ <<"0">> \notin SampleIds

\* C3: no two samples in the store share an id.
C3_UniqueSampleIds ==
    \A i, j \in 1..Len(samples) : samples[i].id = samples[j].id => i = j

\* C4: every Result in the store has a finite hmpi.
C4_FiniteHMPI == \A i \in 1..Len(results) : IsFin(results[i].hmpi)

\* what the import of the records of data at the given positions appends to
\* the samples, in record order
Imported(data, clock, positions) ==
    LET idx == SelectSeq([i \in 1..Len(data) |-> i], LAMBDA i : i \in positions)
    IN  [j \in 1..Len(idx) |-> BatchSample(data[idx[j]], idx[j] - 1, clock[idx[j]])]

\* the records of data the validator accepts
ValidPositions(data) ==
    {i \in 1..Len(data) : BatchRecordError(data[i], BatchSample(data[i], i - 1, 0)) = NoError}

\* C5: the import of an array of n records of which k >= 1 are valid appends
\* exactly the k valid records to the samples, in record order (also those
\* after a failing record), and reports successCount = k and errorCount = n - k.
C5_PartialFailure ==
    [][\A d \in 0..MaxSamples :
        LET data == BatchOf(arg.file)
            n == Len(data.items)
            k == Cardinality(ValidPositions(data.items))
            clock == [i \in 1..n |-> IF i <= d THEN now ELSE now + 1]
        IN  (arg.kind = "file" /\ onload(arg.file, d) /\ data.t = "array" /\ k > 0)
            => /\ samples' = samples \o Imported(data.items, clock,
                                                 ValidPositions(data.items))
               /\ notice' = alert(ImportedMessage(k, n - k))]_vars

\* C5 witness: an array whose first record fails and whose second is valid was
\* imported: one sample, one error.
C5_Witness ==
    /\ arg.kind = "file"
    /\ arg.file = JsonFile(<<ItemNegative, ItemNoName>>)
    /\ Len(samples) = 1
    /\ notice = alert(ImportedMessage(1, 1))

\* C6: the import of an array with no valid record (also the empty array)
\* ends with the error "No valid samples found in the file" and leaves the
\* samples and the results as they were.
C6_NoValidRecords ==
    [][\A d \in 0..MaxSamples :
        LET data == BatchOf(arg.file)
        IN  (arg.kind = "file" /\ onload(arg.file, d) /\ data.t = "array"
                /\ ValidPositions(data.items) = {})
            => /\ notice' = showError(<<"Error processing file: ">> \o ErrNoValid)
               /\ UNCHANGED <<samples, results>>]_vars

\* C6 witness: the empty array was imported and the error is shown.
C6_Witness ==
    /\ arg.kind = "file"
    /\ arg.file = JsonFile(<<>>)
    /\ notice = showError(<<"Error processing file: ">> \o ErrNoValid)
    /\ samples = <<>>

\* the required columns a header lacks, in the order of expectedHeaders
Lacking(header) ==
    SelectSeq(expectedHeaders, LAMBDA h : \A i \in 1..Len(header) : header[i] # h)

\* C7: the import of a CSV file whose header lacks required columns ends with
\* the error that names every missing column and adds no sample, whatever
\* its rows hold.
C7_MissingColumns ==
    [][\A d \in 0..MaxSamples, h \in WideHeaders, r \in SeqsUpTo(WideCsvRecords, MaxSamples) :
        (arg.kind = "file" /\ arg.file = CsvFile(h, r) /\ Lacking(h) # <<>>
            /\ onload(arg.file, d))
        => /\ notice' = showError(<<"Error processing file: ">>
                                    \o ErrMissingColumns(Lacking(h)))
           /\ UNCHANGED <<samples, results>>]_vars

\* C7 witness: a file without the latitude column, whose one row would be
\* valid, was loaded: the error names latitude and the store is empty.
C7_Witness ==
    /\ arg.kind = "file"
    /\ arg.file = CsvFile(<<"sampleName", "longitude", "cd", "pb", "cr", "cu", "zn", "ni">>,
                          <<CsvRecord>>)
    /\ notice = showError(<<"Error processing file: ", "Missing required columns: ",
                            "latitude">>)
    /\ samples = <<>>

\* the rules of the validator, each violated or not by a sample
NameViolated(sample) == \A i \in 1..Len(sample.name) : IsSpace(sample.name[i])
MetalViolated(v) == v.k \in {"nan", "ninf"} \/ (v.k = "fin" /\ v.n < 0)
MetalsViolated(sample) == \E m \in Metals : MetalViolated(sample.metals[m])
LatitudeViolated(sample) ==
    sample.latitude # Null /\ ~InRange(sample.latitude, -90, 90)
LongitudeViolated(sample) ==
    sample.longitude # Null /\ ~InRange(sample.longitude, -180, 180)

\* C8: a sample that violates rules of validateSample is rejected with the
\* error of the earliest violated rule, in the order name, metal
\* concentrations, latitude, longitude.
C8_FirstFailureWins ==
    ret # <<>> =>
        IF NameViolated(arg) THEN ret[1] = ErrName
        ELSE IF MetalsViolated(arg) THEN ret[1] \in {ErrMetal(m) : m \in Metals}
        ELSE IF LatitudeViolated(arg) THEN ret[1] = ErrLatitude
        ELSE LongitudeViolated(arg) => ret[1] = ErrLongitude

\* the first metal of MetalOrder whose concentration violates the metal rule
FirstViolatedMetal(sample) ==
    MetalOrder[CHOOSE i \in 1..Len(MetalOrder) :
                /\ MetalViolated(sample.metals[MetalOrder[i]])
                /\ \A j \in 1..(i - 1) : ~MetalViolated(sample.metals[MetalOrder[j]])]

\* C9: a sample with a concentration that is NaN or negative is rejected, and
\* when its name passes the error names the first such metal in the order cd,
\* pb, cr, cu, zn, ni; a sample whose concentrations are all numbers >= 0 is
\* never rejected with a metal error.
C9_MetalRule ==
    ret # <<>> =>
        /\ MetalsViolated(arg) => ret[1] # NoError
        /\ (MetalsViolated(arg) /\ ~NameViolated(arg))
                => ret[1] = ErrMetal(FirstViolatedMetal(arg))
        /\ ~MetalsViolated(arg) => ret[1] \notin {ErrMetal(m) : m \in Metals}

\* C9 witness: lead is NaN, chromium and nickel are negative, and the error
\* names lead.
C9_Witness ==
    /\ ret = <<ErrMetal("pb")>>
    /\ arg.metals["cd"] = Zero
    /\ arg.metals["pb"] = NaN
    /\ arg.metals["cr"] = NegInfinity
    /\ arg.metals["ni"] = Frac(-7, 100)

\* C10: every sample in the store has a latitude that is absent or a number in
\* [-90, 90] and a longitude that is absent or a number in [-180, 180].
C10_CoordinatesInRange ==
    \A i \in 1..Len(samples) :
        /\ samples[i].latitude = Null \/ InRange(samples[i].latitude, -90, 90)
        /\ samples[i].longitude = Null \/ InRange(samples[i].longitude, -180, 180)

\* C11: categorizeHMPI gives a category for every hmpi; hmpi <= 100 is safe,
\* 100 < hmpi <= 200 is moderate, hmpi > 200 is hazardous (exactly 100 is
\* safe, exactly 200 is moderate), and the category of a result object is
\* the category of the hmpi it holds
C11_Thresholds ==
    ret # <<>> =>
        /\ ret[1].category \in {"safe", "moderate", "hazardous"}
        /\ ret[1].category = categorizeHMPI(ret[1].hmpi)
        /\ (ret[1].hmpi.k = "fin" /\ ret[1].hmpi.n <= 100 * ret[1].hmpi.d)
              => ret[1].category = "safe"
        /\ (ret[1].hmpi.k = "fin" /\ ret[1].hmpi.n > 100 * ret[1].hmpi.d
                                  /\ ret[1].hmpi.n <= 200 * ret[1].hmpi.d)
              => ret[1].category = "moderate"
        /\ (ret[1].hmpi.k = "inf"
              \/ (ret[1].hmpi.k = "fin" /\ ret[1].hmpi.n > 200 * ret[1].hmpi.d))
              => ret[1].category = "hazardous"

\* a result with hmpi exactly 200, which is moderate
C11_Witness ==
    /\ ret # <<>>
    /\ ret[1].hmpi = TwoHundred
    /\ ret[1].category = "moderate"

\* the reference values the index is defined with
ReferenceStandards ==
    [cd |-> Frac(3, 1000), pb |-> Frac(1, 100), cr |-> Frac(5, 100),
     cu |-> Int2Num(2), zn |-> Int2Num(3), ni |-> Frac(7, 100)]
ReferenceWeights ==
    [cd |-> Frac(20, 100), pb |-> Frac(20, 100), cr |-> Frac(15, 100),
     cu |-> Frac(15, 100), zn |-> Frac(15, 100), ni |-> Frac(15, 100)]

\* the metals of a mapping that the reference table knows
Matched(metals) == DOMAIN metals \cap DOMAIN ReferenceStandards

\* sum over the metals of S of concentration / standard * weight * 100
RECURSIVE WeightedPercentSum(_, _)
WeightedPercentSum(S, metals) ==
    IF S = {} THEN Zero
    ELSE LET m == CHOOSE x \in S : TRUE
         IN Add(Mul(Mul(Div(metals[m], ReferenceStandards[m]), ReferenceWeights[m]),
                    Int2Num(100)),
                WeightedPercentSum(S \ {m}, metals))

\* sum of the weights of the metals of S
RECURSIVE WeightSum(_)
WeightSum(S) ==
    IF S = {} THEN Zero
    ELSE LET m == CHOOSE x \in S : TRUE
         IN Add(ReferenceWeights[m], WeightSum(S \ {m}))

\* C12: for a mapping with a metal of the reference table, calculateHMPI is
\* the sum of concentration / standard * weight * 100 over the metals in
\* both the mapping and the table, divided by the sum of their weights; so
\* metals that are all at their standard give 100 and safe, whether all six
\* are there or some are omitted
C12_WeightedMean ==
    (ret # <<>> /\ Matched(arg) # {}) =>
        /\ ret[1].hmpi = Div(WeightedPercentSum(Matched(arg), arg),
                             WeightSum(Matched(arg)))
        /\ (\A m \in Matched(arg) : arg[m] = ReferenceStandards[m])
              => (ret[1].hmpi = Int2Num(100) /\ ret[1].category = "safe")

\* cd at its standard and pb at twice its standard, nothing else: 150
C12_Witness ==
    /\ ret # <<>>
    /\ DOMAIN arg = {"cd", "pb"}
    /\ arg.cd = ReferenceStandards.cd
    /\ ret[1].hmpi = Int2Num(150)

\* the label shown for a metal
MetalLabel == [cd |-> "CD", pb |-> "PB", cr |-> "CR", cu |-> "CU", zn |-> "ZN", ni |-> "NI"]

\* concentration / standard of metal m in a mapping
RatioOf(metals, m) == Div(metals[m], ReferenceStandards[m])

\* metal number i of the order cd, pb, cr, cu, zn, ni has the largest ratio
\* of the mapping, and is the first metal of the order that has it
FirstLargest(metals, i) ==
    /\ MetalOrder[i] \in Matched(metals)
    /\ \A j \in 1..Len(MetalOrder) : MetalOrder[j] \in Matched(metals) =>
          /\ j < i => Lt(RatioOf(metals, MetalOrder[j]), RatioOf(metals, MetalOrder[i]))
          /\ j > i => Le(RatioOf(metals, MetalOrder[j]), RatioOf(metals, MetalOrder[i]))

\* C13: for a mapping of metals of the reference table with concentrations
\* that are not negative, getDominantMetal is 'N/A' exactly when all the
\* concentrations are 0, and then hmpi is 0 and the category safe; otherwise
\* it is the label of the metal with the largest concentration / standard,
\* the first one in the order cd, pb, cr, cu, zn, ni when several have it
C13_DominantMetal ==
    (/\ ret # <<>>
     /\ Matched(arg) # {}
     /\ \A m \in Matched(arg) : Le(Zero, arg[m])) =>
        /\ ret[1].dominantMetal = "N/A" <=> (\A m \in Matched(arg) : arg[m] = Zero)
        /\ ret[1].dominantMetal = "N/A" =>
              (ret[1].hmpi = Zero /\ ret[1].category = "safe")
        /\ ret[1].dominantMetal # "N/A" =>
              \E i \in 1..Len(MetalOrder) :
                  /\ FirstLargest(arg, i)
                  /\ ret[1].dominantMetal = MetalLabel[MetalOrder[i]]

\* pb and cr both at twice their standard, every other metal lower: PB
C13_Witness ==
    /\ ret # <<>>
    /\ DOMAIN arg = Metals
    /\ RatioOf(arg, "cd") = Int2Num(1)
    /\ RatioOf(arg, "pb") = Int2Num(2)
    /\ RatioOf(arg, "cr") = Int2Num(2)
    /\ \A m \in {"cu", "zn", "ni"} : Lt(RatioOf(arg, m), Int2Num(2))
    /\ ret[1].dominantMetal = "PB"

\* C18: for a mapping with no metal of the reference table the engine call
\* ends with a compute error: what the caller gets is an error, not a result
\* object with an hmpi and a category
C18_NoMatchFails ==
    (ret # <<>> /\ Matched(arg) = {}) =>
        /\ "error" \in DOMAIN ret[1]
        /\ "category" \notin DOMAIN ret[1]

\* the positions of the results that carry the id of a sample
ResultsOf(res, sample) == {j \in 1..Len(res) : res[j].id = sample.id}

\* the position of the first sample that carries an id
FirstWithId(smp, id) == CHOOSE i \in 1..Len(smp) : smp[i].id = id /\ \A k \in 1..(i - 1) : smp[k].id # id

\* what holds of the store after calculateAllHMPI returned on samples that
\* were not empty, res being the results before the call
AllRecomputed(smp, res, after) ==
    /\ \A i \in 1..Len(smp) :
          /\ Cardinality(ResultsOf(after, smp[i])) = 1
          /\ \A j \in ResultsOf(after, smp[i]) :
                /\ after[j].metals = smp[i].metals
                /\ after[j].hmpi = calculateHMPI(smp[i].metals)
                /\ after[j].category = categorizeHMPI(calculateHMPI(smp[i].metals))
                /\ after[j].dominantMetal = getDominantMetal(smp[i].metals)
    /\ Len(after) >= Len(res)
    /\ \A j \in 1..Len(res) : after[j].id = res[j].id
    /\ \A j, k \in (Len(res) + 1)..Len(after) :
          j < k => FirstWithId(smp, after[j].id) < FirstWithId(smp, after[k].id)

\* C14: when calculateAllHMPI returns on a store that is not empty, every
\* sample has exactly one result, with the metals, hmpi, category and
\* dominant metal computed from that very sample, and the results the call
\* created come last, in the order of the samples; on an empty store it
\* shows an error and changes neither samples nor results
C14_RecomputeAll ==
    [][\/ IF Len(samples) = 0
          THEN samples' = samples /\ results' = results /\ notice'.kind = "error"
          ELSE samples' = samples /\ AllRecomputed(samples, results, results')
       \/ ~calculateAllHMPI]_vars

\* sequence s is the beginning of sequence t
IsPrefix(s, t) == Len(s) <= Len(t) /\ \A i \in 1..Len(s) : t[i] = s[i]

\* sequence t is sequence s with elements deleted and the rest in place
RECURSIVE IsSubseq(_, _)
IsSubseq(t, s) ==
    IF t = <<>> THEN TRUE
    ELSE IF s = <<>> THEN FALSE
    ELSE IF Head(t) = Head(s) THEN IsSubseq(Tail(t), Tail(s))
    ELSE IsSubseq(t, Tail(s))

\* C15: the samples keep the order in which they were accepted: every step
\* either adds samples at the end or deletes samples and leaves the rest in
\* place; a manual submit and a batch import only add at the end, removeSample
\* only deletes, and the calculations and sortResults leave the samples alone
C15_InsertionOrder ==
    [][/\ IsPrefix(samples, samples') \/ IsSubseq(samples', samples)
       /\ \/ IsPrefix(samples, samples')
          \/ ~(\/ \E form \in Forms : handleManualSubmit(form)
               \/ \E file \in Files, d \in 0..MaxSamples : onload(file, d))
       /\ \/ IsSubseq(samples', samples)
          \/ ~(\E id \in Targets : removeSample(id))
       /\ \/ samples' = samples
          \/ ~(\/ \E id \in Targets : CalculateSingle(id)
               \/ calculateAllHMPI
               \/ \E sortBy \in SortKeys \cup {"other"} : sortResults(sortBy))]_vars

\* a sample entered by hand, then one of a batch, both calculated
C15_Witness ==
    /\ Len(samples) = 2
    /\ samples[1].name = <<"A">>
    /\ samples[2].name # <<"A">>
    /\ Len(results) = 2

\* what Date.now() returns for the n records of a batch when the clock ticks
\* once after the first d of them
BatchClock(n, d) == [i \in 1..n |-> IF i <= d THEN now ELSE now + 1]

\* the samples after the import of a file into the samples smp, as one piece
AfterImport(smp, file, d) ==
    smp \o Imported(BatchOf(file).items, BatchClock(Len(BatchOf(file).items), d),
                    ValidPositions(BatchOf(file).items))

ResultIsOf(result, sample) ==
    /\ result.id = sample.id
    /\ result.name = sample.name
    /\ result.latitude = sample.latitude
    /\ result.longitude = sample.longitude
    /\ result.metals = sample.metals

\* C19: every result carries the id, name, coordinates and metals of a sample
\* that is in the store, so there are never more results than samples; a
\* confirmed clearAllSamples leaves no samples and no results
C19_NoOrphanResult ==
    /\ [](\A j \in 1..Len(results) :
            \E i \in 1..Len(samples) : ResultIsOf(results[j], samples[i]))
    /\ [](Len(results) <= Len(samples))
    /\ [][(samples' = <<>> /\ results' = <<>>) \/ ~clearAllSamples(TRUE)]_vars

\* two samples entered in the same millisecond, with the one result they share
C19_Witness ==
    /\ Len(samples) = 2
    /\ samples[1].id = samples[2].id
    /\ samples[1].metals # samples[2].metals
    /\ Len(results) = 1
    /\ ResultIsOf(results[1], samples[1])

\* the input column an export column is mapped back to
InputColumn(h) ==
    CASE h = "Sample Name" -> "sampleName" [] h = "Latitude" -> "latitude"
      [] h = "Longitude" -> "longitude"
      [] h = "Cd" -> "cd" [] h = "Pb" -> "pb" [] h = "Cr" -> "cr"
      [] h = "Cu" -> "cu" [] h = "Zn" -> "zn" [] h = "Ni" -> "ni"
      [] OTHER -> h

\* an exported file with the columns of its header line mapped back
MappedBack(content) ==
    [i \in 1..Len(content) |->
        IF i <= Len(ExportHeader) THEN InputColumn(content[i]) ELSE content[i]]

\* the samples the importer builds from an exported file, read back into an
\* empty store at time 0
ReadBack(content) ==
    LoadFile(<<>>, ".csv", [name |-> ".csv", text |-> MappedBack(content), json |-> NoJson],
             [i \in 1..Len(content) |-> 0]).samples

\* the metals of the samples read back are those of the results, row by row
SameMetals(res, back) ==
    /\ Len(back) = Len(res)
    /\ \A i \in 1..Len(res) : back[i].metals = res[i].metals

\* C16: the file exportResults writes, read back through parseCSV and
\* processBatchData with its columns mapped back to the input columns, gives
\* for every exported result a sample with exactly the result's six metal
\* concentrations, whatever name and coordinates the validator accepted
C16_RoundTrip ==
    [][\/ ~(Len(results) > 0 /\ exportResults)
       \/ SameMetals(results, ReadBack(ret'[1]))]_vars

====
